---- MODULE Spec2Model ----
(***************************************************************************)
(* Model of deduce/utility.py: the tag parser (find_tags, split_tags), the *)
(* tag flattener (flatten, flatten_text_all_phi), the annotation indexer   *)
(* (parse_tag, get_annotations), the span normalizer (flatten_text) and    *)
(* the trie merger (merge_triebased).                                      *)
(*                                                                         *)
(* A Python str is a sequence of one-character strings.  Positions keep    *)
(* Python's 0-based values; Slice(s, a, b) is s[a:b].                      *)
(***************************************************************************)
EXTENDS Integers, Sequences, FiniteSets, TLC

VARIABLES
    \* split_tags / find_tags
    text, splitbytags, toflatten, called,
    \* merge_triebased
    tokens, trie, i, tokens_merged, mpc,
    \* get_annotations; doc is the document annotated_text is the markup of
    doc, annotated_text, tags, n_leading_whitespaces, ix, raw_text_ix,
    annotations, t, apc,
    \* flatten, flatten_text_all_phi; fdoc is the document the argument is the markup of
    fdoc, phi_text, to_flatten, fpc, flat_arg, flat_result,
    \* flatten_text (its tokens and i are norm_tokens and norm_i here)
    norm_tokens, flattened, norm_i, end_ann_ix, replaced, npc

vars == <<text, splitbytags, toflatten, called,
          tokens, trie, i, tokens_merged, mpc,
          doc, annotated_text, tags, n_leading_whitespaces, ix, raw_text_ix,
          annotations, t, apc,
          fdoc, phi_text, to_flatten, fpc, flat_arg, flat_result,
          norm_tokens, flattened, norm_i, end_ann_ix, replaced, npc>>

tagVars == <<text, splitbytags, toflatten, called>>
mergeVars == <<tokens, trie, i, tokens_merged, mpc>>
flatVars == <<fdoc, phi_text, to_flatten, fpc, flat_arg, flat_result>>
normVars == <<norm_tokens, flattened, norm_i, end_ann_ix, replaced, npc>>
annVars == <<doc, annotated_text, tags, n_leading_whitespaces, ix, raw_text_ix,
             annotations, t, apc>>

----------------------------------------------------------------------------
(* Python str / list primitives *)

Min(a, b) == IF a < b THEN a ELSE b

\* s[a:b] for 0 <= a
Slice(s, a, b) == IF b <= a THEN <<>> ELSE SubSeq(s, a + 1, Min(b, Len(s)))

\* s[a:]
SliceFrom(s, a) == Slice(s, a, Len(s))

\* s[k] for a 0-based k
At(s, k) == s[k + 1]

RECURSIVE Flat(_)
\* "".join(list) ; also sum(list_of_lists, [])
Flat(ss) == IF ss = <<>> THEN <<>> ELSE Head(ss) \o Flat(Tail(ss))

\* all sequences over S of length at most n
SeqsUpTo(S, n) == UNION {[1..k -> S] : k \in 0..n}

\* sub == s[p : p + len(sub)]
OccursAt(s, sub, p) == /\ p + Len(sub) <= Len(s)
                       /\ Slice(s, p, p + Len(sub)) = sub

\* the least p >= start at which sub occurs in s, -1 when there is none
\* (str.find; str.index raises ValueError where this is -1)
IndexFrom(s, sub, start) ==
    LET ps == {p \in start..Len(s) : OccursAt(s, sub, p)}
    IN  IF ps = {} THEN -1 ELSE CHOOSE p \in ps : \A q \in ps : p <= q

\* number of "<" minus number of ">" among the first k characters of s
RECURSIVE DepthAfter(_, _)
DepthAfter(s, k) ==
    IF k = 0 THEN 0
    ELSE DepthAfter(s, k - 1) + (IF s[k] = "<" THEN 1 ELSE IF s[k] = ">" THEN -1 ELSE 0)

----------------------------------------------------------------------------
(* Markup documents: a literal run, or a tag <TYPE value> whose value is a  *)
(* sequence of literal runs and tags.                                      *)

Lit(s) == [isTag |-> FALSE, type |-> <<>>, kids |-> <<>>, lit |-> s]
Tag(ty, ks) == [isTag |-> TRUE, type |-> ty, kids |-> ks, lit |-> <<>>]

RECURSIVE Render(_)
\* the markup text of a node
Render(n) ==
    IF n.isTag
    THEN <<"<">> \o n.type \o <<" ">> \o Flat([k \in 1..Len(n.kids) |-> Render(n.kids[k])]) \o <<">">>
    ELSE n.lit

\* the markup text of a sequence of nodes
RenderAll(ns) == Flat([k \in 1..Len(ns) |-> Render(ns[k])])

RECURSIVE PlainOf(_)
\* the literal content of a node, all markup left out
PlainOf(n) ==
    IF n.isTag THEN Flat([k \in 1..Len(n.kids) |-> PlainOf(n.kids[k])]) ELSE n.lit

PlainAll(ns) == Flat([k \in 1..Len(ns) |-> PlainOf(ns[k])])

----------------------------------------------------------------------------
(* find_tags *)

\* find_tags moving startpos on every opening hook, nested or not
FindStep_anyDepth(txt, index, st) ==
    LET opened == IF At(txt, index) = "<"
                  THEN [st EXCEPT !.startpos = index, !.nest_depth = @ + 1]
                  ELSE st
    IN  IF At(txt, index) = ">"
        THEN LET d == opened.nest_depth - 1
             IN  [opened EXCEPT !.nest_depth = d,
                                !.toflatten = IF d = 0
                                              THEN Append(@, Slice(txt, opened.startpos, index + 1))
                                              ELSE @]
        ELSE opened

\* one iteration of the for loop of find_tags; st = [nest_depth, startpos, toflatten]
FindStep(txt, index, st) ==
    LET opened == IF At(txt, index) = "<"
                  THEN [st EXCEPT !.startpos = IF st.nest_depth = 0 THEN index ELSE @,
                                  !.nest_depth = @ + 1]
                  ELSE st
    IN  IF At(txt, index) = ">"
        THEN LET d == opened.nest_depth - 1
             IN  [opened EXCEPT !.nest_depth = d,
                                !.toflatten = IF d = 0
                                              THEN Append(@, Slice(txt, opened.startpos, index + 1))
                                              ELSE @]
        ELSE opened

RECURSIVE FindScan(_, _, _)
FindScan(txt, index, st) ==
    IF index >= Len(txt) THEN st ELSE FindScan(txt, index + 1, FindStep(txt, index, st))

find_tags(txt) ==
    FindScan(txt, 0, [nest_depth |-> 0, startpos |-> 0, toflatten |-> <<>>]).toflatten

----------------------------------------------------------------------------
(* split_tags *)

\* split_tags restarting at the closing hook instead of just past it
SplitStep_restartAtHook(txt, index, st) ==
    LET opened == IF At(txt, index) = "<"
                  THEN IF st.nest_depth = 0
                       THEN [st EXCEPT !.splitbytags = Append(@, Slice(txt, st.startpos, index)),
                                       !.startpos = index,
                                       !.nest_depth = @ + 1]
                       ELSE [st EXCEPT !.nest_depth = @ + 1]
                  ELSE st
    IN  IF At(txt, index) = ">"
        THEN LET d == opened.nest_depth - 1
             IN  IF d = 0
                 THEN [opened EXCEPT !.nest_depth = d,
                                     !.splitbytags = Append(@, Slice(txt, opened.startpos, index + 1)),
                                     !.startpos = index]
                 ELSE [opened EXCEPT !.nest_depth = d]
        ELSE opened

\* one iteration of the for loop of split_tags; st = [nest_depth, startpos, splitbytags]
SplitStep(txt, index, st) ==
    LET opened == IF At(txt, index) = "<"
                  THEN IF st.nest_depth = 0
                       THEN [st EXCEPT !.splitbytags = Append(@, Slice(txt, st.startpos, index)),
                                       !.startpos = index,
                                       !.nest_depth = @ + 1]
                       ELSE [st EXCEPT !.nest_depth = @ + 1]
                  ELSE st
    IN  IF At(txt, index) = ">"
        THEN LET d == opened.nest_depth - 1
             IN  IF d = 0
                 THEN [opened EXCEPT !.nest_depth = d,
                                     !.splitbytags = Append(@, Slice(txt, opened.startpos, index + 1)),
                                     !.startpos = index + 1]
                 ELSE [opened EXCEPT !.nest_depth = d]
        ELSE opened

RECURSIVE SplitScan(_, _, _)
SplitScan(txt, index, st) ==
    IF index >= Len(txt) THEN st ELSE SplitScan(txt, index + 1, SplitStep(txt, index, st))

\* the last append and the filter of empty elements
SplitFinish(txt, st) ==
    SelectSeq(Append(st.splitbytags, SliceFrom(txt, st.startpos)), LAMBDA x : Len(x) > 0)

split_tags(txt) ==
    SplitFinish(txt, SplitScan(txt, 0, [nest_depth |-> 0, startpos |-> 0, splitbytags |-> <<>>]))

----------------------------------------------------------------------------
(* flatten *)

\* stripping only the opening hook
strip_hooks_keepClosing(tag) == Slice(tag, 1, Len(tag))

\* tag[1:-1]
strip_hooks(tag) == Slice(tag, 1, Len(tag) - 1)

RECURSIVE flatten(_)
\* flatten(tag) as [ok, name, value]; ok is FALSE where tagspl[1] raises IndexError
flatten(tag) ==
    IF \A k \in 1..Len(tag) : tag[k] # "<"
    THEN [ok |-> TRUE, name |-> <<>>, value |-> tag]
    ELSE LET inner == strip_hooks(tag)
             sp == IndexFrom(inner, <<" ">>, 0)
         IN  IF sp = -1
             THEN [ok |-> FALSE, name |-> <<>>, value |-> <<>>]
             ELSE LET tagname == Slice(inner, 0, sp)
                      tagrest == SliceFrom(inner, sp + 1)
                      parts == split_tags(tagrest)
                      flats == [k \in 1..Len(parts) |-> flatten(parts[k])]
                  IN  [ok |-> \A k \in 1..Len(parts) : flats[k].ok,
                       name |-> tagname \o Flat([k \in 1..Len(parts) |-> flats[k].name]),
                       value |-> Flat([k \in 1..Len(parts) |-> flats[k].value])]

----------------------------------------------------------------------------
(* merge_triebased *)

\* p is a prefix of s
IsPrefix(p, s) == /\ Len(p) <= Len(s)
                  /\ SubSeq(s, 1, Len(p)) = p

\* trie.find_all_prefixes(toks): every registered sequence that is a prefix of toks
find_all_prefixes(tr, toks) == {m \in tr : IsPrefix(m, toks)}

\* picking the shortest match instead of the longest
max_list_shortest(prefix_matches) ==
    CHOOSE m \in prefix_matches : \A o \in prefix_matches : Len(m) <= Len(o)

\* max(prefix_matches, key=len)
max_list(prefix_matches) ==
    CHOOSE m \in prefix_matches : \A o \in prefix_matches : Len(o) <= Len(m)

\* appending only the first matched token
joined_firstOnly(matched) == IF matched = <<>> THEN <<>> ELSE Head(matched)

\* "".join(max_list)
joined(matched) == Flat(matched)

----------------------------------------------------------------------------
(* parse_tag, get_annotations *)

\* parse_tag(tag); ok is FALSE where tag.index(" ") raises ValueError
parse_tag(tag) ==
    LET split_ix == IndexFrom(tag, <<" ">>, 0)
    IN  IF split_ix = -1
        THEN [ok |-> FALSE, type |-> <<>>, text |-> <<>>]
        ELSE [ok |-> TRUE,
              type |-> Slice(tag, 1, split_ix),
              text |-> Slice(tag, split_ix + 1, Len(tag) - 1)]

Annotation(start_ix, end_ix, tag, text_) ==
    [start_ix |-> start_ix, end_ix |-> end_ix, tag |-> tag, text_ |-> text_]

\* searching the whole text instead of searching from the cursor
tag_position_fromStart(txt, tag, cursor) == IndexFrom(txt, tag, 0)

\* annotated_text.index(tag, ix), -1 where it raises ValueError
tag_position(txt, tag, cursor) == IndexFrom(txt, tag, cursor)

\* advancing the raw cursor by the whole tag
raw_advance_wholeTag(tag_ix, tag, tag_text) == tag_ix + Len(tag)

\* the increment of raw_text_ix
raw_advance(tag_ix, tag, tag_text) == tag_ix + Len(tag_text)

----------------------------------------------------------------------------
(* flatten_text_all_phi *)

RECURSIVE InsertByLen(_, _)
\* x put behind every element of the sorted list that is no shorter
InsertByLen(x, sorted) ==
    IF sorted = <<>> THEN <<x>>
    ELSE IF Len(Head(sorted)) >= Len(x)
         THEN <<Head(sorted)>> \o InsertByLen(x, Tail(sorted))
         ELSE <<x>> \o sorted

RECURSIVE SortedByLen(_, _)
SortedByLen(todo, sorted) ==
    IF todo = <<>> THEN sorted ELSE SortedByLen(Tail(todo), InsertByLen(Head(todo), sorted))

\* leaving the tags in document order
sort_longest_first_unsorted(tgs) == tgs

\* to_flatten.sort(key=lambda x: -len(x)): stable, longest first
sort_longest_first(tgs) == SortedByLen(tgs, <<>>)

RECURSIVE str_replace(_, _, _)
\* s.replace(old, new) for a non-empty old: every occurrence, left to right
str_replace(s, old, new) ==
    LET p == IndexFrom(s, old, 0)
    IN  IF p = -1 THEN s
        ELSE Slice(s, 0, p) \o new \o str_replace(SliceFrom(s, p + Len(old)), old, new)

IsSpace(c) == c = " "

RECURSIVE lstrip(_)
lstrip(s) == IF s # <<>> /\ IsSpace(Head(s)) THEN lstrip(Tail(s)) ELSE s

RECURSIVE rstrip(_)
rstrip(s) == IF s # <<>> /\ IsSpace(s[Len(s)]) THEN rstrip(SubSeq(s, 1, Len(s) - 1)) ELSE s

\* s.strip()
strip(s) == rstrip(lstrip(s))

\* f"<{outermost_category} {value.strip()}>"
phi_replacement(tag) ==
    <<"<">> \o parse_tag(tag).type \o <<" ">> \o strip(flatten(tag).value) \o <<">">>

----------------------------------------------------------------------------
(* Spans (deduce.utilcls) and flatten_text *)

\* None
None == <<>>

\* Token(text, annotation) and TokenGroup(tokens, annotation)
Token(txt, ann) == [text |-> txt, annotation |-> ann, subs |-> <<>>, group |-> FALSE]
TokenGroup(toks, ann) ==
    [text |-> Flat([k \in 1..Len(toks) |-> toks[k].text]), annotation |-> ann, subs |-> toks, group |-> TRUE]

is_annotation(span) == span.annotation # None

get_full_annotation(span) == span.annotation

\* the span with its annotation replaced, a literal span as it is
with_annotation(span, ann) == IF is_annotation(span) THEN [span EXCEPT !.annotation = ann] ELSE span

without_annotation(span) == [span EXCEPT !.annotation = None]

\* span.flatten(with_annotation=...): one token carrying the given annotation
span_flatten(span, ann) ==
    IF is_annotation(span) THEN Token(span.text, ann) ELSE span

\* the markup text of a span
as_text(span) ==
    IF is_annotation(span) THEN <<"<">> \o span.annotation \o <<" ">> \o span.text \o <<">">>
    ELSE span.text

\* to_text(tokens)
to_text(toks) == Flat([k \in 1..Len(toks) |-> as_text(toks[k])])

\* sub in s
Contains(s, sub) == IndexFrom(s, sub, 0) # -1

Upper == {"A", "B", "C", "D", "E", "F", "G", "H", "I", "J", "K", "L", "M",
          "N", "O", "P", "Q", "R", "S", "T", "U", "V", "W", "X", "Y", "Z"}
Lower == {"a", "b", "c", "d", "e", "f", "g", "h", "i", "j", "k", "l", "m",
          "n", "o", "p", "q", "r", "s", "t", "u", "v", "w", "x", "y", "z"}
Digit == {"0", "1", "2", "3", "4", "5", "6", "7", "8", "9"}
\* \s
Whitespace == {" ", "\t", "\n", "\r"}
\* [\w.\s,]
ValueChar == Upper \cup Lower \cup Digit \cup {"_"} \cup {"."} \cup Whitespace \cup {","}
\* [.\s\-,]
SepChar == {"."} \cup Whitespace \cup {"-", ","}
\* [.\s]
SepTailChar == {"."} \cup Whitespace

AllIn(s, cs) == \A k \in 1..Len(s) : s[k] \in cs

\* <([A-Z]+)\s([\w.\s,]+)>
MatchesTag(u) ==
    /\ Len(u) >= 5
    /\ u[1] = "<"
    /\ u[Len(u)] = ">"
    /\ \E k \in 3..(Len(u) - 2) :
          /\ AllIn(SubSeq(u, 2, k - 1), Upper)
          /\ u[k] \in Whitespace
          /\ AllIn(SubSeq(u, k + 1, Len(u) - 1), ValueChar)

\* re.fullmatch("<([A-Z]+)\s([\w.\s,]+)>([.\s\-,]+)[.\s]*<([A-Z]+)\s([\w.\s,]+)>", s)
adjacent_fullmatch(s) ==
    \E p \in 1..Len(s) : \E q \in (p + 1)..Len(s) : \E r \in q..Len(s) :
        /\ MatchesTag(SubSeq(s, 1, p))
        /\ AllIn(SubSeq(s, p + 1, q), SepChar)
        /\ AllIn(SubSeq(s, q + 1, r), SepTailChar)
        /\ MatchesTag(SubSeq(s, r + 1, Len(s)))

----------------------------------------------------------------------------
(* Specification of the tag parser: a text is drawn, then both scans run. *)

MaxLen == 6

TextChars == {"<", ">", " ", "a"}

NotCalled == <<"not called">>

IdleTags == /\ text = <<>>
            /\ splitbytags = NotCalled
            /\ toflatten = NotCalled
            /\ called = {}

IdleAnn == /\ doc = <<>>
           /\ annotated_text = <<>>
           /\ tags = <<>>
           /\ n_leading_whitespaces = 0
           /\ ix = 0
           /\ raw_text_ix = 0
           /\ annotations = <<>>
           /\ t = 0
           /\ apc = "idle"

IdleFlat == /\ fdoc = <<>>
            /\ phi_text = <<>>
            /\ to_flatten = <<>>
            /\ fpc = "idle"
            /\ flat_arg = <<>>
            /\ flat_result = NotCalled

IdleNorm == /\ norm_tokens = <<>>
            /\ flattened = <<>>
            /\ norm_i = 0
            /\ end_ann_ix = -1
            /\ replaced = <<>>
            /\ npc = "idle"

IdleMerge == /\ tokens = <<>>
             /\ trie = {}
             /\ i = 0
             /\ tokens_merged = <<>>
             /\ mpc = "idle"

InitTags == /\ text \in SeqsUpTo(TextChars, MaxLen)
            /\ splitbytags = NotCalled
            /\ toflatten = NotCalled
            /\ called = {}
            /\ IdleMerge
            /\ IdleAnn
            /\ IdleFlat
            /\ IdleNorm

CallSplitTags == /\ "split_tags" \notin called
                 /\ splitbytags' = split_tags(text)
                 /\ called' = called \cup {"split_tags"}
                 /\ UNCHANGED <<text, toflatten>>
                 /\ UNCHANGED <<mergeVars, annVars, flatVars, normVars>>

CallFindTags == /\ "find_tags" \notin called
                /\ toflatten' = find_tags(text)
                /\ called' = called \cup {"find_tags"}
                /\ UNCHANGED <<text, splitbytags>>
                /\ UNCHANGED <<mergeVars, annVars, flatVars, normVars>>

NextTags == CallSplitTags \/ CallFindTags

SpecTags == InitTags /\ [][NextTags]_vars

----------------------------------------------------------------------------
(* Specification of the trie merger: tokens and a trie are drawn, then the *)
(* while loop runs one iteration per step.                                 *)

MaxTokens == 3
MaxSeqLen == 2
\* iterations allowed beyond len(tokens) before the model stops following the loop
Slack == 1

TokenSet == {<<"A">>, <<"1">>, <<"B">>}

RegisteredSeqs == SeqsUpTo(TokenSet, MaxSeqLen)

\* the empty trie and every trie of one or two registered sequences
Tries == {{}} \cup {{a, b} : a \in RegisteredSeqs, b \in RegisteredSeqs}

InitMerge == /\ tokens \in SeqsUpTo(TokenSet, MaxTokens)
             /\ trie \in Tries
             /\ i = 0
             /\ tokens_merged = <<>>
             /\ mpc = "loop"
             /\ IdleTags
             /\ IdleAnn
             /\ IdleFlat
             /\ IdleNorm

\* lines 52-54: no prefix of tokens[i:] is in the trie
MergeNoMatch ==
    /\ mpc = "loop"
    /\ i < Len(tokens)
    /\ Len(tokens_merged) < Len(tokens) + Slack
    /\ find_all_prefixes(trie, SliceFrom(tokens, i)) = {}
    /\ tokens_merged' = Append(tokens_merged, At(tokens, i))
    /\ i' = i + 1
    /\ UNCHANGED <<tokens, trie, mpc>>
    /\ UNCHANGED <<tagVars, annVars, flatVars, normVars>>

\* lines 58-61: merge the longest prefix found
MergeMatch ==
    /\ mpc = "loop"
    /\ i < Len(tokens)
    /\ Len(tokens_merged) < Len(tokens) + Slack
    /\ LET prefix_matches == find_all_prefixes(trie, SliceFrom(tokens, i))
       IN  /\ prefix_matches # {}
           /\ tokens_merged' = Append(tokens_merged, joined(max_list(prefix_matches)))
           /\ i' = i + Len(max_list(prefix_matches))
    /\ UNCHANGED <<tokens, trie, mpc>>
    /\ UNCHANGED <<tagVars, annVars, flatVars, normVars>>

\* lines 46, 64: the loop condition fails and the list is returned
MergeReturn ==
    /\ mpc = "loop"
    /\ i >= Len(tokens)
    /\ mpc' = "done"
    /\ UNCHANGED <<tokens, trie, i, tokens_merged>>
    /\ UNCHANGED <<tagVars, annVars, flatVars, normVars>>

NextMerge == MergeNoMatch \/ MergeMatch \/ MergeReturn

SpecMerge == InitMerge /\ [][NextMerge]_vars

\* C2: the returned tokens concatenate to the concatenation of the input
\* tokens, and the returned list is no longer than the input list.
C2_MergeConcat ==
    mpc = "done" =>
        /\ Flat(tokens_merged) = Flat(tokens)
        /\ Len(tokens_merged) <= Len(tokens)

\* a call has returned after merging a registered sequence of two tokens
C2_Witness ==
    /\ mpc = "done"
    /\ Len(tokens) = 3
    /\ Len(tokens_merged) = 2
    /\ \E k \in 1..2 : Len(tokens_merged[k]) = 2

\* C3: the cursor i strictly increases on every iteration of the scan loop
\* (every iteration appends one token to tokens_merged).
C3_CursorAdvances ==
    [][tokens_merged' # tokens_merged => i' > i]_vars

\* C8: at every cursor position, without a registered prefix tokens[i] is
\* emitted and the cursor advances by 1; otherwise the concatenation of the
\* longest registered prefix is emitted and the cursor advances by its length.
C8_LongestMatch ==
    [][tokens_merged' # tokens_merged =>
        LET rest == SliceFrom(tokens, i)
            emitted == tokens_merged'[Len(tokens_merged')]
            registered == {m \in trie : IsPrefix(m, rest)}
        IN  /\ tokens_merged' = Append(tokens_merged, emitted)
            /\ IF registered = {}
               THEN emitted = rest[1] /\ i' = i + 1
               ELSE /\ SubSeq(rest, 1, i' - i) \in registered
                    /\ emitted = Flat(SubSeq(rest, 1, i' - i))
                    /\ \A m \in registered : Len(m) <= i' - i]_vars

\* trie {[A], [A,1]} on [A,1,B] has returned [A1, B]
C8_Witness ==
    /\ mpc = "done"
    /\ tokens = <<<<"A">>, <<"1">>, <<"B">>>>
    /\ trie = {<<<<"A">>>>, <<<<"A">>, <<"1">>>>}
    /\ tokens_merged = <<<<"A", "1">>, <<"B">>>>

----------------------------------------------------------------------------
(* Specification of the annotation indexer: a document of literal runs and *)
(* non-nested tags is drawn with a tag list, then the for loop runs one    *)
(* tag per step.                                                           *)

MaxAnnItems == 3
MaxTags == 2
MaxLead == 1

AnnTagNodes == {Tag(<<"N">>, <<Lit(<<"a">>)>>),
                Tag(<<"M">>, <<Lit(<<"a", " ">>)>>),
                Tag(<<"N">>, <<Lit(<<>>)>>)}

AnnNodes == {Lit(<<"a">>), Lit(<<" ">>)} \cup AnnTagNodes

\* the tags of a document in appearance order, as markup text
TagsOf(d) == LET tagNodes == SelectSeq(d, LAMBDA n : n.isTag)
             IN  [k \in 1..Len(tagNodes) |-> Render(tagNodes[k])]

\* tag lists a caller may pass: tags of this vocabulary in any order, and a unit without a space
TagArgs == {Render(n) : n \in AnnTagNodes} \cup {<<"<", "N", ">">>}

InitAnn == /\ doc \in SeqsUpTo(AnnNodes, MaxAnnItems)
           /\ annotated_text = RenderAll(doc)
           /\ tags \in {TagsOf(doc)} \cup SeqsUpTo(TagArgs, MaxTags)
           /\ n_leading_whitespaces \in 0..MaxLead
           /\ ix = 0
           /\ raw_text_ix = n_leading_whitespaces
           /\ annotations = <<>>
           /\ t = 0
           /\ apc = "loop"
           /\ IdleTags
           /\ IdleMerge
           /\ IdleFlat
           /\ IdleNorm

\* lines 393-394: annotated_text.index or parse_tag raises ValueError
AnnotateFail ==
    /\ apc = "loop"
    /\ t < Len(tags)
    /\ LET tag == tags[t + 1]
       IN  \/ tag_position(annotated_text, tag, ix) = -1
           \/ ~parse_tag(tag).ok
    /\ apc' = "error"
    /\ UNCHANGED <<doc, annotated_text, tags, n_leading_whitespaces, ix, raw_text_ix,
                   annotations, t>>
    /\ UNCHANGED <<tagVars, mergeVars, flatVars, normVars>>

\* lines 393-404: one iteration of the for loop
AnnotateTag ==
    /\ apc = "loop"
    /\ t < Len(tags)
    /\ LET tag == tags[t + 1]
           found == tag_position(annotated_text, tag, ix)
           tag_ix == found - ix
           parsed == parse_tag(tag)
       IN  /\ found # -1
           /\ parsed.ok
           /\ annotations' = Append(annotations,
                                    Annotation(raw_text_ix + tag_ix,
                                               raw_text_ix + tag_ix + Len(parsed.text),
                                               parsed.type,
                                               parsed.text))
           /\ ix' = ix + tag_ix + Len(tag)
           /\ raw_text_ix' = raw_text_ix + raw_advance(tag_ix, tag, parsed.text)
    /\ t' = t + 1
    /\ UNCHANGED <<doc, annotated_text, tags, n_leading_whitespaces, apc>>
    /\ UNCHANGED <<tagVars, mergeVars, flatVars, normVars>>

\* line 405: every tag has been handled, the list is returned
AnnotateReturn ==
    /\ apc = "loop"
    /\ t = Len(tags)
    /\ apc' = "done"
    /\ UNCHANGED <<doc, annotated_text, tags, n_leading_whitespaces, ix, raw_text_ix,
                   annotations, t>>
    /\ UNCHANGED <<tagVars, mergeVars, flatVars, normVars>>

NextAnn == AnnotateFail \/ AnnotateTag \/ AnnotateReturn

SpecAnn == InitAnn /\ [][NextAnn]_vars

\* n whitespace characters followed by the document with every tag replaced by its value
RawText(n, d) == [k \in 1..n |-> " "] \o PlainAll(d)

\* the tag nodes of a document, in appearance order
TagNodesOf(d) == SelectSeq(d, LAMBDA n : n.isTag)

\* the raw-text offset of the value of the k-th tag node of d
RECURSIVE RawOffset(_, _, _)
RawOffset(n, d, k) ==
    IF Head(d).isTag
    THEN IF k = 1 THEN n ELSE RawOffset(n + Len(PlainOf(Head(d))), Tail(d), k - 1)
    ELSE RawOffset(n + Len(PlainOf(Head(d))), Tail(d), k)

\* C4: with tags the list of all (non-nested) tags in appearance order,
\* get_annotations does not fail and returns one Annotation per tag, in
\* order; the k-th has the k-th tag's type and value, starts where that
\* value starts in the raw text, end = start + len(value), and
\* raw[start:end] is the value.
C4_Annotations ==
    tags = TagsOf(doc) =>
        /\ apc # "error"
        /\ apc = "done" => Len(annotations) = Len(tags)
        /\ \A k \in 1..Len(annotations) :
              LET node == TagNodesOf(doc)[k]
                  a == annotations[k]
              IN  /\ a.tag = node.type
                  /\ a.text_ = PlainOf(node)
                  /\ a.start_ix = RawOffset(n_leading_whitespaces, doc, k)
                  /\ a.end_ix = a.start_ix + Len(PlainOf(node))
                  /\ Slice(RawText(n_leading_whitespaces, doc), a.start_ix, a.end_ix) = PlainOf(node)

\* a call with leading whitespace has returned two annotations, literal text between the tags
C4_Witness ==
    /\ apc = "done"
    /\ tags = TagsOf(doc)
    /\ n_leading_whitespaces = 1
    /\ Len(annotations) = 2
    /\ Len(doc) = 3
    /\ ~doc[2].isTag
    /\ annotations[1].text_ # <<>>

\* two distinct tags that each occur once in txt, listed in the reverse of their appearance order
ReversedPair(txt, tgs) ==
    /\ Len(tgs) = 2
    /\ tgs[1] # tgs[2]
    /\ \A k \in 1..2 : Cardinality({p \in 0..Len(txt) : OccursAt(txt, tgs[k], p)}) = 1
    /\ IndexFrom(txt, tgs[2], 0) < IndexFrom(txt, tgs[1], 0)

\* C9: get_annotations fails, returning no list, whenever a listed tag has
\* no occurrence at or after the search cursor; the cursor is 0 for the
\* first tag and then the position just past the previously located tag;
\* two distinct tags occurring once each, listed in reverse order, never
\* yield a returned list.
C9_TagNotFound ==
    /\ [](ReversedPair(annotated_text, tags) => apc # "done")
    /\ [](t = 0 => ix = 0)
    /\ [][(apc = "loop" /\ t < Len(tags)) =>
            IF \E p \in ix..Len(annotated_text) : OccursAt(annotated_text, tags[t + 1], p)
            THEN apc' = "error" \/
                 /\ OccursAt(annotated_text, tags[t + 1], ix' - Len(tags[t + 1]))
                 /\ ix' - Len(tags[t + 1]) >= ix
                 /\ \A p \in ix..(ix' - Len(tags[t + 1]) - 1) : ~OccursAt(annotated_text, tags[t + 1], p)
            ELSE apc' = "error" /\ annotations' = annotations]_vars

\* the second tag of a reversed pair was not found after the first one was located
C9_Witness ==
    /\ apc = "error"
    /\ ReversedPair(annotated_text, tags)
    /\ t = 1
    /\ Len(annotations) = 1

----------------------------------------------------------------------------
(* Specification of the flattener: a document of literal runs and tags,    *)
(* nested up to twice, is drawn; then either flatten runs on one of its    *)
(* top-level items, or flatten_text_all_phi runs on its markup text, one   *)
(* tag per step.                                                           *)

MaxItems == 2

LitNodes == {Lit(<<"x">>), Lit(<<" ">>)}

LeafTags == {Tag(<<"B">>, <<Lit(<<" ">>)>>),
             Tag(<<"B">>, <<Lit(<<"x">>)>>),
             Tag(<<"C">>, <<Lit(<<"x">>)>>)}

Kids == LitNodes \cup LeafTags

\* values of up to two parts, a tag among any two
KidSeqs == {<<>>} \cup {<<a>> : a \in Kids}
           \cup {<<a, b>> : a \in LeafTags, b \in Kids}
           \cup {<<a, b>> : a \in LitNodes, b \in LeafTags}

NestedTags == {Tag(<<"P", "Q">>, ks) : ks \in KidSeqs}

\* a tag nested twice: literal text, then a nested tag that holds a leaf tag
DeepTags == {Tag(<<"D">>, <<Lit(<<"x">>), Tag(<<"P", "Q">>, <<Tag(<<"C">>, <<Lit(<<"x">>)>>), Lit(<<" ">>)>>)>>)}

FlatNodes == LitNodes \cup LeafTags \cup NestedTags \cup DeepTags

InitFlat == /\ fdoc \in SeqsUpTo(FlatNodes, MaxItems)
            /\ phi_text = RenderAll(fdoc)
            /\ to_flatten = <<>>
            /\ fpc = "start"
            /\ flat_arg = <<>>
            /\ flat_result = NotCalled
            /\ IdleTags
            /\ IdleMerge
            /\ IdleAnn
            /\ IdleNorm

\* flatten(tag) on one top-level item of the document
CallFlatten ==
    /\ fpc = "start"
    /\ \E k \in 1..Len(fdoc) :
          /\ flat_arg' = Render(fdoc[k])
          /\ flat_result' = flatten(Render(fdoc[k]))
    /\ fpc' = "flattened"
    /\ UNCHANGED <<fdoc, phi_text, to_flatten>>
    /\ UNCHANGED <<tagVars, mergeVars, annVars, normVars>>

\* lines 150-151
PhiFindTags ==
    /\ fpc = "start"
    /\ to_flatten' = sort_longest_first(find_tags(phi_text))
    /\ fpc' = "phi_loop"
    /\ UNCHANGED <<fdoc, phi_text, flat_arg, flat_result>>
    /\ UNCHANGED <<tagVars, mergeVars, annVars, normVars>>

\* lines 153-156: one iteration of the for loop
PhiReplace ==
    /\ fpc = "phi_loop"
    /\ to_flatten # <<>>
    /\ LET tag == Head(to_flatten)
       IN  IF flatten(tag).ok /\ parse_tag(tag).ok
           THEN /\ phi_text' = str_replace(phi_text, tag, phi_replacement(tag))
                /\ to_flatten' = Tail(to_flatten)
                /\ fpc' = fpc
           ELSE /\ fpc' = "phi_error"
                /\ UNCHANGED <<phi_text, to_flatten>>
    /\ UNCHANGED <<fdoc, flat_arg, flat_result>>
    /\ UNCHANGED <<tagVars, mergeVars, annVars, normVars>>

\* line 158
PhiReturn ==
    /\ fpc = "phi_loop"
    /\ to_flatten = <<>>
    /\ fpc' = "phi_done"
    /\ UNCHANGED <<fdoc, phi_text, to_flatten, flat_arg, flat_result>>
    /\ UNCHANGED <<tagVars, mergeVars, annVars, normVars>>

NextFlat == CallFlatten \/ PhiFindTags \/ PhiReplace \/ PhiReturn

SpecFlat == InitFlat /\ [][NextFlat]_vars

RECURSIVE TypePath(_)
\* all type names of a node in document order, outer type first
TypePath(n) ==
    IF n.isTag THEN n.type \o Flat([k \in 1..Len(n.kids) |-> TypePath(n.kids[k])]) ELSE <<>>

\* a top-level item as flatten_text_all_phi is to leave it
FlatItem(n) ==
    IF n.isTag THEN <<"<">> \o n.type \o <<" ">> \o strip(PlainOf(n)) \o <<">">> ELSE n.lit

\* C5: flatten_text_all_phi replaces every top-level tag in place by
\* <T v>, T the outermost type and v the trimmed flattened value; literal
\* text is unchanged and the result holds no nested tag.
C5_FlattenAllPhi ==
    /\ fpc # "phi_error"
    /\ fpc = "phi_done" =>
          /\ phi_text = Flat([k \in 1..Len(fdoc) |-> FlatItem(fdoc[k])])
          /\ \A k \in 1..Len(phi_text) : DepthAfter(phi_text, k) \in {0, 1}

\* the call has returned on a text where a top-level tag that flattening
\* changes also occurs verbatim nested in a longer top-level tag after it
C5_Witness ==
    /\ fpc = "phi_done"
    /\ Len(fdoc) = 2
    /\ fdoc[1].isTag /\ fdoc[2].isTag
    /\ \E k \in 1..Len(fdoc[2].kids) : fdoc[2].kids[k] = fdoc[1]
    /\ FlatItem(fdoc[1]) # Render(fdoc[1])

\* C6: flatten of a well-nested tag returns the type names in document
\* order, outer first, without separator, and the text without hooks, type
\* names and the space after each type name; a string without "<" comes
\* back as ("", string).
C6_Flatten ==
    fpc = "flattened" =>
        \E k \in 1..Len(fdoc) :
            /\ flat_arg = Render(fdoc[k])
            /\ flat_result = [ok |-> TRUE, name |-> TypePath(fdoc[k]), value |-> PlainOf(fdoc[k])]

\* flatten has returned for a tag holding literal text and then a nested tag
C6_Witness ==
    /\ fpc = "flattened"
    /\ \E k \in 1..Len(fdoc) :
          /\ flat_arg = Render(fdoc[k])
          /\ Len(fdoc[k].kids) = 2
          /\ ~fdoc[k].kids[1].isTag
          /\ fdoc[k].kids[2].isTag
    /\ flat_result.name = <<"P", "Q", "C">>
    /\ flat_result.value = <<" ", "x">>

----------------------------------------------------------------------------
(* Specification of the normalizer: a list of spans is drawn, then         *)
(* flatten_text flattens them, scans them right to left one span per step  *)
(* and relabels them.                                                      *)

MaxSpans == 3

INITIAL == <<"I", "N", "I", "T", "I", "A", "L">>
NAME == <<"N", "A", "M", "E">>
VOORNAAMPAT == <<"V", "O", "O", "R", "N", "A", "A", "M", "P", "A", "T">>
PATIENT == <<"P", "A", "T", "I", "E", "N", "T">>
PERSOON == <<"P", "E", "R", "S", "O", "O", "N">>

SpanSet == {Token(<<"A">>, INITIAL), Token(<<"J", "a", "n">>, NAME), Token(<<"J", "a", "n">>, VOORNAAMPAT),
            Token(<<".", " ">>, None), Token(<<"-">>, None), Token(<<"e", "n">>, None), Token(<<>>, None)}

InitNorm == /\ norm_tokens \in SeqsUpTo(SpanSet, MaxSpans)
            /\ flattened = <<>>
            /\ norm_i = 0
            /\ end_ann_ix = -1
            /\ replaced = <<>>
            /\ npc = "start"
            /\ IdleTags
            /\ IdleMerge
            /\ IdleAnn
            /\ IdleFlat

\* lines 169-177: every span flattened to PATIENT or PERSOON, the scan set up
NormFlatten ==
    /\ npc = "start"
    /\ flattened' = [k \in 1..Len(norm_tokens) |->
                        span_flatten(norm_tokens[k],
                                     IF Contains(get_full_annotation(norm_tokens[k]), <<"P", "A", "T">>)
                                     THEN PATIENT ELSE PERSOON)]
    /\ end_ann_ix' = -1
    /\ norm_i' = Len(norm_tokens) - 1
    /\ npc' = "loop"
    /\ UNCHANGED <<norm_tokens, replaced>>
    /\ UNCHANGED <<tagVars, mergeVars, annVars, flatVars>>

\* lines 178-191: one iteration of the scan; building the tail of a merge
\* evaluates flattened - 1 (line 189), which raises TypeError
NormScan ==
    /\ npc = "loop"
    /\ norm_i >= 0
    /\ LET token == At(flattened, norm_i)
       IN  IF ~is_annotation(token)
           THEN UNCHANGED <<end_ann_ix, npc>>
           ELSE IF end_ann_ix = -1
                THEN end_ann_ix' = norm_i /\ UNCHANGED npc
                ELSE IF adjacent_fullmatch(to_text(Slice(flattened, norm_i, end_ann_ix + 1)))
                     THEN npc' = "error" /\ UNCHANGED end_ann_ix
                     ELSE end_ann_ix' = norm_i /\ UNCHANGED npc
    /\ norm_i' = norm_i - 1
    /\ UNCHANGED <<norm_tokens, flattened, replaced>>
    /\ UNCHANGED <<tagVars, mergeVars, annVars, flatVars>>

\* lines 194-200: the relabel pass and the return
NormRelabel ==
    /\ npc = "loop"
    /\ norm_i < 0
    /\ replaced' = [k \in 1..Len(flattened) |->
                       with_annotation(flattened[k],
                                       IF Contains(get_full_annotation(flattened[k]), PATIENT)
                                       THEN PATIENT ELSE PERSOON)]
    /\ npc' = "done"
    /\ UNCHANGED <<norm_tokens, flattened, norm_i, end_ann_ix>>
    /\ UNCHANGED <<tagVars, mergeVars, annVars, flatVars>>

NextNorm == NormFlatten \/ NormScan \/ NormRelabel

SpecNorm == InitNorm /\ [][NextNorm]_vars

\* the run from the annotated span at from to the annotated span at to renders
\* as a tag, a separator of whitespace, periods, hyphens and commas, and a tag
TagSepTag(spans, from, to) ==
    /\ is_annotation(At(spans, from))
    /\ is_annotation(At(spans, to))
    /\ MatchesTag(as_text(At(spans, from)))
    /\ MatchesTag(as_text(At(spans, to)))
    /\ \A k \in (from + 1)..(to - 1) :
          ~is_annotation(At(spans, k)) /\ AllIn(At(spans, k).text, SepChar)

\* C7: when the run from an annotated span to the next annotated span to
\* its right renders as tag, separator (possibly empty), tag, the scan does
\* not fail and replaces the run by one Group over all its spans, annotated
\* with the first and the last annotation concatenated, the spans before
\* and after the run unchanged.
C7_AdjacencyMerge ==
    [][(npc = "loop" /\ norm_i >= 0 /\ end_ann_ix # -1 /\ TagSepTag(flattened, norm_i, end_ann_ix)) =>
        /\ npc' # "error"
        /\ flattened' =
              Slice(flattened, 0, norm_i)
              \o <<TokenGroup([k \in 1..(end_ann_ix - norm_i + 1) |->
                                  without_annotation(flattened[norm_i + k])],
                              At(flattened, norm_i).annotation \o At(flattened, end_ann_ix).annotation)>>
              \o SliceFrom(flattened, end_ann_ix + 1)]_vars

----------------------------------------------------------------------------
(* Properties of the tag parser *)

\* hooks are balanced and well nested
Balanced(s) == /\ \A k \in 1..Len(s) : DepthAfter(s, k) >= 0
               /\ DepthAfter(s, Len(s)) = 0

\* starts with "<", ends with ">", and the depth first returns to 0 at the last character
TagShape(tg) == /\ Len(tg) >= 2
               /\ tg[1] = "<"
               /\ tg[Len(tg)] = ">"
               /\ \A k \in 1..(Len(tg) - 1) : DepthAfter(tg, k) >= 1
               /\ DepthAfter(tg, Len(tg)) = 0

\* the members of tags lie in s at increasing, pairwise non-overlapping positions
InOrderDisjoint(s, tgs) ==
    \E pos \in [1..Len(tgs) -> 0..Len(s)] :
        /\ \A k \in 1..Len(tgs) : OccursAt(s, tgs[k], pos[k])
        /\ \A k \in 1..(Len(tgs) - 1) : pos[k] + Len(tgs[k]) <= pos[k + 1]

\* C1: for every text, balanced or not, the segments returned by split_tags
\* concatenate to the text and none of them is empty.
C1_SplitConcat ==
    "split_tags" \in called =>
        /\ Flat(splitbytags) = text
        /\ \A k \in 1..Len(splitbytags) : splitbytags[k] # <<>>

\* split_tags has run on an unbalanced text with two adjacent tags and literal text
C1_Witness ==
    /\ "split_tags" \in called
    /\ ~Balanced(text)
    /\ Len(splitbytags) >= 3
    /\ \E k \in 1..(Len(splitbytags) - 1) : TagShape(splitbytags[k]) /\ TagShape(splitbytags[k + 1])

\* C10: for every text, find_tags returns substrings in document order at
\* non-overlapping positions, each a balanced "<" ... ">" unit; for balanced
\* text they are exactly the segments of split_tags that start with "<".
C10_FindTags ==
    /\ "find_tags" \in called =>
            /\ InOrderDisjoint(text, toflatten)
            /\ \A k \in 1..Len(toflatten) : TagShape(toflatten[k])
    /\ (called = {"find_tags", "split_tags"} /\ Balanced(text)) =>
            toflatten = SelectSeq(splitbytags, LAMBDA x : x[1] = "<")

\* both scans have run on a balanced text holding a nested tag and a second tag
C10_Witness ==
    /\ called = {"find_tags", "split_tags"}
    /\ Balanced(text)
    /\ Len(toflatten) = 2
    /\ \E k \in 2..(Len(toflatten[1]) - 1) : toflatten[1][k] = "<"

====
